---- MODULE Spec2Model ----
(***************************************************************************)
(* Model of the 2D potential flow package: the point singularities of      *)
(* src/src/potential/d2/_point.py, the FlowField2D aggregator of           *)
(* src/src/potential/d2/_flow_field.py and the example command of          *)
(* src/examples/ex_potential_2d.py.                                        *)
(*                                                                         *)
(* Numbers are exact.  A finite float is a linear combination, with        *)
(* rational coefficients, of monomials pi^k * (transcendental atoms); the  *)
(* atoms are the values of log, cos, sin and arctan2 that are not exact    *)
(* rationals, kept uninterpreted.  The non-finite floats nan, +inf and     *)
(* -inf follow IEEE 754.  Python objects are tagged records: a float, a    *)
(* numpy ndarray (shape and data), a tuple/list, or a raised exception.    *)
(***************************************************************************)
EXTENDS Integers, Sequences, FiniteSets, TLC

VARIABLES
    lists,    \* heap of Python list objects; lists[1] is the list of the default argument
    fields,   \* heap of FlowField2D instances: each the instance's __dict__
    hist,     \* per instance: how it was constructed, whether the caller appended through it
    last,     \* the last operation on a field and what it returned
    call,     \* a direct call of a singularity method: receiver, method, arguments
    ret,      \* what that call returned or raised
    argv,     \* the example command's positional arguments
    pc,       \* the example command's position in its loop over argv
    ran,      \* the example scenarios executed so far, with their outcome
    exc       \* the exception that ended the example command, if any

vars == <<lists, fields, hist, last, call, ret, argv, pc, ran, exc>>

-----------------------------------------------------------------------------
(* name = value; body: an assignment to a local name, then the statements  *)
(* that use it.                                                            *)
Let(value, body(_)) == body(value)

-----------------------------------------------------------------------------
(* Rationals: <<n, d>> in lowest terms with d > 0. *)

Abs(n) == IF n < 0 THEN -n ELSE n

RECURSIVE GCD(_, _)
GCD(a, b) == IF b = 0 THEN a ELSE GCD(b, a % b)

Rat(n, d) ==
    LET g == GCD(Abs(n), Abs(d))
        s == IF d < 0 THEN -1 ELSE 1
    IN  <<(s * n) \div g, (s * d) \div g>>

RInt(n) == <<n, 1>>
RZero == RInt(0)
ROne == RInt(1)
RAdd(a, b) == Rat(a[1] * b[2] + b[1] * a[2], a[2] * b[2])
RNeg(a) == <<-a[1], a[2]>>
RSub(a, b) == RAdd(a, RNeg(b))
RMul(a, b) == Rat(a[1] * b[1], a[2] * b[2])
RInv(a) == Rat(a[2], a[1])
RSign(a) == IF a[1] > 0 THEN 1 ELSE IF a[1] < 0 THEN -1 ELSE 0

-----------------------------------------------------------------------------
(* Finite numbers: a set of terms [m |-> monomial, c |-> nonzero rational]. *)
(* A monomial is [pe |-> k, at |-> atoms], standing for pi^k * atoms.       *)

MOne == [pe |-> 0, at |-> <<>>]
MMul(a, b) == [pe |-> a.pe + b.pe, at |-> a.at \o b.at]

NZero == {}
NRat(q) == IF q = RZero THEN {} ELSE {[m |-> MOne, c |-> q]}
NInt(n) == NRat(RInt(n))
NAtom(f, a, b) == {[m |-> [pe |-> 0, at |-> <<[f |-> f, a |-> a, b |-> b]>>], c |-> ROne]}

Coef(A, m) == IF \E t \in A : t.m = m THEN (CHOOSE t \in A : t.m = m).c ELSE RZero

NAdd(A, B) ==
    {t \in {[m |-> m, c |-> RAdd(Coef(A, m), Coef(B, m))] : m \in {s.m : s \in A \cup B}} :
        t.c # RZero}

NNeg(A) == {[m |-> t.m, c |-> RNeg(t.c)] : t \in A}

RECURSIVE SumProducts(_)
SumProducts(P) ==
    IF P = {} THEN RZero
    ELSE LET p == CHOOSE q \in P : TRUE
         IN  RAdd(RMul(p[1].c, p[2].c), SumProducts(P \ {p}))

NMul(A, B) ==
    {t \in {[m |-> MMul(p[1].m, p[2].m),
             c |-> SumProducts({q \in A \X B : MMul(q[1].m, q[2].m) = MMul(p[1].m, p[2].m)})] :
                p \in A \X B} :
        t.c # RZero}

(* 1/B for a B of one atom-free term, the only divisors the code has:      *)
(* rationals (2., 4., sums of squares) and pi.                             *)
NInv(B) ==
    LET t == CHOOSE u \in B : TRUE
    IN  {[m |-> [pe |-> -t.m.pe, at |-> <<>>], c |-> RInv(t.c)]}

(* The sign of a number whose terms agree in sign and hold no atom; 0 for  *)
(* zero and 2 when the terms do not decide it.                             *)
NSign(A) ==
    IF A = {} THEN 0
    ELSE IF \E t \in A : t.m.at # <<>> THEN 2
    ELSE IF \A t \in A : RSign(t.c) = 1 THEN 1
    ELSE IF \A t \in A : RSign(t.c) = -1 THEN -1
    ELSE 2

-----------------------------------------------------------------------------
(* IEEE 754 values: finite, nan, or inf with sign s (s = 2: undecided).    *)

Fin(A) == [k |-> "fin", v |-> A, s |-> 0]
NaN == [k |-> "nan", v |-> {}, s |-> 0]
Inf(s) == [k |-> "inf", v |-> {}, s |-> s]

FRat(n, d) == Fin(NRat(Rat(n, d)))
FInt(n) == Fin(NInt(n))
IsFinite(a) == a.k = "fin"
FSign(a) == IF a.k = "fin" THEN NSign(a.v) ELSE a.s
SMul(s, t) == IF s = 0 \/ t = 0 THEN 0 ELSE IF s = 2 \/ t = 2 THEN 2 ELSE s * t

FAdd(a, b) ==
    IF a.k = "nan" \/ b.k = "nan" THEN NaN
    ELSE IF a.k = "inf" /\ b.k = "inf" THEN (IF a.s = b.s /\ a.s # 2 THEN a ELSE NaN)
    ELSE IF a.k = "inf" THEN a
    ELSE IF b.k = "inf" THEN b
    ELSE Fin(NAdd(a.v, b.v))

FNeg(a) ==
    IF a.k = "fin" THEN Fin(NNeg(a.v))
    ELSE IF a.k = "inf" THEN Inf(IF a.s = 2 THEN 2 ELSE -a.s)
    ELSE NaN

FSub(a, b) == FAdd(a, FNeg(b))

FMul(a, b) ==
    IF a.k = "nan" \/ b.k = "nan" THEN NaN
    ELSE IF a.k = "fin" /\ b.k = "fin" THEN Fin(NMul(a.v, b.v))
    ELSE IF FSign(a) = 0 \/ FSign(b) = 0 THEN NaN
    ELSE Inf(SMul(FSign(a), FSign(b)))

(* numpy's division: x/0 is +-inf, 0/0 is nan (a warning, never an error). *)
FDiv(a, b) ==
    IF a.k = "nan" \/ b.k = "nan" THEN NaN
    ELSE IF a.k = "inf" /\ b.k = "inf" THEN NaN
    ELSE IF a.k = "inf" THEN Inf(SMul(a.s, IF FSign(b) = 0 THEN 1 ELSE FSign(b)))
    ELSE IF b.k = "inf" THEN FInt(0)
    ELSE IF b.v = {} THEN (IF a.v = {} THEN NaN ELSE Inf(NSign(a.v)))
    ELSE Fin(NMul(a.v, NInv(b.v)))

-----------------------------------------------------------------------------
(* Python objects. *)

PyFloat(f) == [t |-> "float", f |-> f]
NdArray(shape, data) == [t |-> "ndarray", shape |-> shape, data |-> data]
PyTuple(items) == [t |-> "tuple", items |-> items]
Raise(e, msg) == [t |-> "raise", exc |-> e, msg |-> msg]
IsRaise(o) == o.t = "raise"

PyRat(n, d) == PyFloat(FRat(n, d))
PyInt(n) == PyFloat(FInt(n))

NoRaise == [t |-> "none"]

(* The first exception among the operands, in evaluation order, if any. *)
RECURSIVE FirstRaise(_)
FirstRaise(os) ==
    IF os = <<>> THEN NoRaise
    ELSE IF IsRaise(Head(os)) THEN Head(os)
    ELSE FirstRaise(Tail(os))

(* (a, b, ...): the tuple, unless evaluating an element raised. *)
MkTuple(os) == Let(FirstRaise(os), LAMBDA e : IF e # NoRaise THEN e ELSE PyTuple(os))

Size(a) == Cardinality(DOMAIN a.data)

(* An elementwise binary operation of floats and ndarrays; a float is      *)
(* broadcast over an array, two arrays must agree in shape.                *)
Elem(o, i) == IF o.t = "float" THEN o.f ELSE o.data[i]

Lift2(op(_, _), a, b) ==
    IF IsRaise(a) THEN a
    ELSE IF IsRaise(b) THEN b
    ELSE IF a.t = "ndarray" /\ b.t = "ndarray" /\ a.shape # b.shape
        THEN Raise("ValueError", "operands could not be broadcast together")
    ELSE Let([i \in (IF a.t = "ndarray" THEN DOMAIN a.data
                     ELSE IF b.t = "ndarray" THEN DOMAIN b.data ELSE {<<>>})
                 |-> op(Elem(a, i), Elem(b, i))],
             LAMBDA data :
                IF a.t = "ndarray" THEN NdArray(a.shape, data)
                ELSE IF b.t = "ndarray" THEN NdArray(b.shape, data)
                ELSE PyFloat(data[<<>>]))

PyAdd(a, b) == Lift2(FAdd, a, b)
PySub(a, b) == Lift2(FSub, a, b)
PyMul(a, b) == Lift2(FMul, a, b)

(* a / b: dividing a Python float by a zero Python float raises; numpy     *)
(* arithmetic yields inf or nan instead.                                   *)
PyDiv(a, b) ==
    IF IsRaise(a) THEN a
    ELSE IF IsRaise(b) THEN b
    ELSE IF a.t = "float" /\ b.t = "float" /\ b.f = FInt(0)
        THEN Raise("ZeroDivisionError", "float division by zero")
    ELSE Lift2(FDiv, a, b)

(* -a *)
PyNeg(a) ==
    IF IsRaise(a) THEN a
    ELSE IF a.t = "float" THEN PyFloat(FNeg(a.f))
    ELSE NdArray(a.shape, [i \in DOMAIN a.data |-> FNeg(a.data[i])])

(* a ** 2. *)
PyPow2(a) == PyMul(a, a)

(* math.pi *)
pi == PyFloat(Fin({[m |-> [pe |-> 1, at |-> <<>>], c |-> ROne]}))

IsRational(A) == \A t \in A : t.m = MOne

(* A transcendental function of a float, exact where the result is         *)
(* rational and an uninterpreted atom elsewhere.                           *)
FLog(a) ==
    IF a.k = "nan" THEN PyFloat(NaN)
    ELSE IF a.k = "inf" THEN
        (IF a.s = 1 THEN PyFloat(Inf(1)) ELSE Raise("ValueError", "math domain error"))
    ELSE IF ~IsRational(a.v) THEN PyFloat(NaN)
    ELSE IF RSign(Coef(a.v, MOne)) # 1 THEN Raise("ValueError", "math domain error")
    ELSE IF Coef(a.v, MOne) = ROne THEN PyInt(0)
    ELSE PyFloat(Fin(NAtom("log", Coef(a.v, MOne), RZero)))

(* math.log(a): a float function; an ndarray argument is converted with    *)
(* float(), which only an array of one element allows.                     *)
log(a) ==
    IF IsRaise(a) THEN a
    ELSE IF a.t = "float" THEN FLog(a.f)
    ELSE IF Size(a) = 1 THEN FLog(a.data[CHOOSE i \in DOMAIN a.data : TRUE])
    ELSE Raise("TypeError", "only size-1 arrays can be converted to Python scalars")

(* math.cos(a), math.sin(a) *)
cos(a) ==
    IF IsRaise(a) THEN a
    ELSE IF a.f = FInt(0) THEN PyInt(1)
    ELSE PyFloat(Fin(NAtom("cos", Coef(a.f.v, MOne), RZero)))

sin(a) ==
    IF IsRaise(a) THEN a
    ELSE IF a.f = FInt(0) THEN PyInt(0)
    ELSE PyFloat(Fin(NAtom("sin", Coef(a.f.v, MOne), RZero)))

FArctan2(y, x) ==
    IF ~(IsFinite(y) /\ IsFinite(x)) THEN NaN
    ELSE IF y.v = {} /\ NSign(x.v) \in {0, 1} THEN FInt(0)
    ELSE IF y.v = {} THEN pi.f
    ELSE Fin(NAtom("arctan2", Coef(y.v, MOne), Coef(x.v, MOne)))

(* numpy.arctan2(y, x), elementwise *)
arctan2(y, x) == Lift2(FArctan2, y, x)

(* obj.name for an instance attribute: the entry of the instance's         *)
(* __dict__, and AttributeError when __init__ never assigned it.           *)
GetAttr(self, name) ==
    IF name \in DOMAIN self.d THEN self.d[name]
    ELSE Raise("AttributeError", name)

(* o[k], 0-based, of a tuple or list *)
Subscript(o, k) == IF IsRaise(o) THEN o ELSE o.items[k + 1]

-----------------------------------------------------------------------------
(* The point singularities. *)

PointDoublet_init(x, y, strength, default_color) ==
    [cls |-> "PointDoublet",
     d |-> [x |-> x, y |-> y, strength |-> strength, default_color |-> default_color]]

PointSource_init(x, y, strength, default_color) ==
    [cls |-> "PointSource",
     d |-> [x |-> x, y |-> y, strength |-> strength, default_color |-> default_color]]

PointVortex_init(x, y, strength, default_color) ==
    [cls |-> "PointVortex",
     d |-> [x |-> x, y |-> y, strength |-> strength, default_color |-> default_color]]

PointDoublet_compute_flow(self, x, y) ==
    Let(PySub(x, GetAttr(self, "x")), LAMBDA xrel :
    Let(PySub(y, GetAttr(self, "y")), LAMBDA yrel :
    Let(PyDiv(PyMul(PyDiv(PyDiv(PyNeg(GetAttr(self, "strength")), PyInt(2)), pi),
                    PySub(PyPow2(xrel), PyPow2(y))),
              PyPow2(PyAdd(PyPow2(xrel), PyPow2(yrel)))),
        LAMBDA u :
    Let(PyDiv(PyMul(PyMul(PyMul(PyDiv(PyDiv(PyNeg(GetAttr(self, "strength")), PyInt(2)), pi),
                                PyInt(2)), xrel), yrel),
              PyPow2(PyAdd(PyPow2(xrel), PyPow2(yrel)))),
        LAMBDA v :
    MkTuple(<<u, v>>)))))

PointDoublet_compute_psi(self, x, y) ==
    Let(PySub(x, GetAttr(self, "x")), LAMBDA xrel :
    Let(PySub(y, GetAttr(self, "y")), LAMBDA yrel :
    PyDiv(PyMul(PyDiv(PyDiv(PyNeg(GetAttr(self, "strength")), PyInt(2)), pi), yrel),
          PyAdd(PyPow2(xrel), PyPow2(yrel)))))

PointSource_compute_flow(self, x, y) ==
    Let(PySub(x, GetAttr(self, "x")), LAMBDA xrel :
    Let(PySub(y, GetAttr(self, "y")), LAMBDA yrel :
    Let(PyDiv(PyMul(PyDiv(PyDiv(GetAttr(self, "strength"), PyInt(2)), pi), xrel),
              PyAdd(PyPow2(xrel), PyPow2(yrel))),
        LAMBDA u :
    Let(PyDiv(PyMul(PyDiv(PyDiv(GetAttr(self, "strength"), PyInt(2)), pi), yrel),
              PyAdd(PyPow2(xrel), PyPow2(yrel))),
        LAMBDA v :
    MkTuple(<<u, v>>)))))

PointSource_compute_psi(self, x, y) ==
    Let(PySub(x, GetAttr(self, "x")), LAMBDA xrel :
    Let(PySub(y, GetAttr(self, "y")), LAMBDA yrel :
    PyMul(PyDiv(PyDiv(GetAttr(self, "strength"), PyInt(2)), pi),
          arctan2(PySub(yrel, GetAttr(self, "yrel")),
                  PySub(xrel, GetAttr(self, "xrel"))))))

(* A variant for comparison: the vortex with both velocity components negated. *)
PointVortex_compute_flow_reversed(self, x, y) ==
    Let(PySub(x, GetAttr(self, "x")), LAMBDA xrel :
    Let(PySub(y, GetAttr(self, "y")), LAMBDA yrel :
    Let(PyDiv(PyMul(PyDiv(PyDiv(PyNeg(GetAttr(self, "strength")), PyInt(2)), pi), yrel),
              PyAdd(PyPow2(xrel), PyPow2(yrel))),
        LAMBDA u :
    Let(PyDiv(PyMul(PyDiv(PyDiv(GetAttr(self, "strength"), PyInt(2)), pi), xrel),
              PyAdd(PyPow2(xrel), PyPow2(yrel))),
        LAMBDA v :
    MkTuple(<<u, v>>)))))

PointVortex_compute_flow(self, x, y) ==
    Let(PySub(x, GetAttr(self, "x")), LAMBDA xrel :
    Let(PySub(y, GetAttr(self, "y")), LAMBDA yrel :
    Let(PyDiv(PyMul(PyDiv(PyDiv(GetAttr(self, "strength"), PyInt(2)), pi), yrel),
              PyAdd(PyPow2(xrel), PyPow2(yrel))),
        LAMBDA u :
    Let(PyDiv(PyMul(PyDiv(PyDiv(PyNeg(GetAttr(self, "strength")), PyInt(2)), pi), xrel),
              PyAdd(PyPow2(xrel), PyPow2(yrel))),
        LAMBDA v :
    MkTuple(<<u, v>>)))))

PointVortex_compute_psi(self, x, y) ==
    Let(PySub(x, GetAttr(self, "x")), LAMBDA xrel :
    Let(PySub(y, GetAttr(self, "y")), LAMBDA yrel :
    PyMul(PyDiv(PyDiv(GetAttr(self, "strength"), PyInt(4)), pi),
          log(PyAdd(PyPow2(xrel), PyPow2(yrel))))))

(* point.compute_flow(x, y), point.compute_psi(x, y): dispatch on the class *)
compute_flow(point, x, y) ==
    CASE point.cls = "PointDoublet" -> PointDoublet_compute_flow(point, x, y)
      [] point.cls = "PointSource" -> PointSource_compute_flow(point, x, y)
      [] point.cls = "PointVortex" -> PointVortex_compute_flow(point, x, y)

compute_psi(point, x, y) ==
    CASE point.cls = "PointDoublet" -> PointDoublet_compute_psi(point, x, y)
      [] point.cls = "PointSource" -> PointSource_compute_psi(point, x, y)
      [] point.cls = "PointVortex" -> PointVortex_compute_psi(point, x, y)

-----------------------------------------------------------------------------
(* numpy helpers of the aggregator. *)

(* numpy.linspace(start, stop, num): num evenly spaced samples, both ends  *)
(* included; a single sample is start; a negative num is refused.          *)
linspace(start, stop, num) ==
    IF num < 0 THEN Raise("ValueError", "Number of samples must be non-negative")
    ELSE LET step == FDiv(FSub(stop.f, start.f), FInt(num - 1))
         IN  NdArray(<<num>>,
                     [i \in {<<k>> : k \in 1..num} |->
                         IF num = 1 THEN start.f
                         ELSE FAdd(start.f, FMul(FInt(i[1] - 1), step))])

(* numpy.meshgrid(xv, yv): two arrays of shape (len(yv), len(xv)); x runs  *)
(* along the columns and y along the rows.                                 *)
meshgrid(xv, yv) ==
    IF IsRaise(xv) THEN xv
    ELSE IF IsRaise(yv) THEN yv
    ELSE LET shape == <<yv.shape[1], xv.shape[1]>>
             idx == (1..shape[1]) \X (1..shape[2])
         IN  PyTuple(<<NdArray(shape, [i \in idx |-> xv.data[<<i[2]>>]]),
                       NdArray(shape, [i \in idx |-> yv.data[<<i[1]>>]])>>)

(* numpy.ones(a.shape) *)
ones_like(a) == IF IsRaise(a) THEN a ELSE NdArray(a.shape, [i \in DOMAIN a.data |-> FInt(1)])

-----------------------------------------------------------------------------
(* FlowField2D.  An instance is its __dict__; points holds a reference to  *)
(* a list object of the heap L, xlim and ylim are pairs of floats, nx and  *)
(* ny are ints.                                                            *)

FlowField2D_init(points, uinf, alpha, xlim, ylim, nx, ny) ==
    [points |-> points, uinf |-> uinf, alpha |-> alpha,
     xlim |-> xlim, ylim |-> ylim, nx |-> nx, ny |-> ny]

(* The defaults of __init__.  The default of points is the one list object *)
(* made when the def statement ran: every call that omits points receives  *)
(* a reference to that same object.                                        *)
DefaultPoints == 1
DefaultN == 100
DefaultLim == <<PyInt(-1), PyInt(1)>>

Arg(kw, name, dflt) == IF name \in DOMAIN kw THEN kw[name] ELSE dflt

(* FlowField2D with keyword arguments kw, the points argument being the heap reference ref *)
Construct(kw, ref) ==
    FlowField2D_init(ref, Arg(kw, "uinf", PyInt(0)), Arg(kw, "alpha", PyInt(0)),
                     Arg(kw, "xlim", DefaultLim), Arg(kw, "ylim", DefaultLim),
                     Arg(kw, "nx", DefaultN), Arg(kw, "ny", DefaultN))

x_values(self) == linspace(self.xlim[1], self.xlim[2], self.nx)

y_values(self) == linspace(self.ylim[1], self.ylim[2], self.ny)

grid(self) == meshgrid(x_values(self), y_values(self))

x(self) == Subscript(grid(self), 0)

y(self) == Subscript(grid(self), 1)

freestream(self) ==
    MkTuple(<<PyMul(self.uinf, cos(self.alpha)), PyMul(self.uinf, sin(self.alpha))>>)

(* The loop of flow over the points still to visit: u and v accumulate,    *)
(* and the first exception ends the loop.                                  *)
RECURSIVE flow_loop(_, _, _, _)
flow_loop(self, pts, u, v) ==
    IF IsRaise(u) THEN u
    ELSE IF IsRaise(v) THEN v
    ELSE IF pts = <<>> THEN MkTuple(<<u, v>>)
    ELSE Let(compute_flow(Head(pts), x(self), y(self)),
             LAMBDA point_flow :
                IF IsRaise(point_flow) THEN point_flow
                ELSE flow_loop(self, Tail(pts),
                               PyAdd(u, Subscript(point_flow, 0)),
                               PyAdd(v, Subscript(point_flow, 1))))

flow(self, L) ==
    LET u0 == PyMul(ones_like(x(self)), Subscript(freestream(self), 0))
        v0 == PyMul(ones_like(x(self)), Subscript(freestream(self), 1))
    IN  flow_loop(self, L[self.points], u0, v0)

RECURSIVE psi_loop(_, _, _)
psi_loop(self, pts, acc) ==
    IF IsRaise(acc) THEN acc
    ELSE IF pts = <<>> THEN acc
    ELSE psi_loop(self, Tail(pts), PyAdd(acc, compute_psi(Head(pts), x(self), y(self))))

psi(self, L) ==
    LET psi0 == PyMul(self.uinf, PySub(PyMul(y(self), cos(self.alpha)),
                                       PyMul(x(self), sin(self.alpha))))
    IN  psi_loop(self, L[self.points], psi0)

u(self, L) == Subscript(flow(self, L), 0)

v(self, L) == Subscript(flow(self, L), 1)

Properties == {"flow", "freestream", "grid", "psi", "u", "v", "x", "x_values", "y", "y_values"}

(* The value the getter of property <name> returns *)
property_value(self, L, name) ==
    CASE name = "flow" -> flow(self, L)
      [] name = "freestream" -> freestream(self)
      [] name = "grid" -> grid(self)
      [] name = "psi" -> psi(self, L)
      [] name = "u" -> u(self, L)
      [] name = "v" -> v(self, L)
      [] name = "x" -> x(self)
      [] name = "x_values" -> x_values(self)
      [] name = "y" -> y(self)
      [] name = "y_values" -> y_values(self)

(* A variant for comparison: a getter that keeps the value it computed in  *)
(* the instance and returns it again on the next access of that property.  *)
property_get_memo(self, L, name) ==
    IF "_memo" \in DOMAIN self /\ self._memo.name = name
    THEN [val |-> self._memo.val, self |-> self]
    ELSE LET val == property_value(self, L, name)
             memo == [name |-> name, val |-> val]
         IN  [val |-> val,
              self |-> [k \in DOMAIN self \cup {"_memo"} |->
                            IF k = "_memo" THEN memo ELSE self[k]]]

(* self.<name> for a property: the value the getter returns, and the       *)
(* instance's __dict__ when it returns (no getter assigns to self).        *)
property_get(self, L, name) ==
    [val |-> property_value(self, L, name), self |-> self]

-----------------------------------------------------------------------------
(* Bounds of the model and the inputs drawn from them. *)

CoordMax == 1     \* coordinates and limits are the integers of -CoordMax..CoordMax
MaxN == 2         \* grid resolutions nx, ny go up to MaxN
MaxLen == 2       \* a points list holds at most MaxLen singularities
MaxFields == 2    \* FlowField2D instances alive at once
MaxArgs == 3      \* names given to the example command
ExampleN == 2     \* grid resolution of the example scenarios, standing for 100, 200 and 300
SheetN == 2       \* vortices of the vortex sheet scenario, standing for 20

Coords == (-CoordMax)..CoordMax
Strengths == {-1, 1, 2}

AllPoints ==
    {PointDoublet_init(PyInt(a), PyInt(b), PyInt(s), "g") : a \in Coords, b \in Coords, s \in Strengths}
    \cup {PointSource_init(PyInt(a), PyInt(b), PyInt(s), "r") : a \in Coords, b \in Coords, s \in Strengths}
    \cup {PointVortex_init(PyInt(a), PyInt(b), PyInt(s), "c") : a \in Coords, b \in Coords, s \in Strengths}

FullLim == <<PyInt(-CoordMax), PyInt(CoordMax)>>

(* The grid of a field of nx by ny samples over the whole coordinate range *)
GridOf(nx, ny) == FlowField2D_init(1, PyInt(0), PyInt(0), FullLim, FullLim, nx, ny)

(* Coordinate arguments of a direct call: a single point, the two arrays   *)
(* of a grid, or two one-dimensional arrays.                               *)
ScalarArgs == {<<PyInt(a), PyInt(b)>> : a \in Coords, b \in Coords}
GridArgs == {<<x(GridOf(nx, ny)), y(GridOf(nx, ny))>> : nx \in 1..MaxN, ny \in 1..MaxN}
LineArgs == {<<x_values(GridOf(n, n)), x_values(GridOf(n, n))>> : n \in 1..MaxN}
CallArgs == ScalarArgs \cup GridArgs \cup LineArgs

Pending == [t |-> "pending"]
NoCall == [t |-> "nocall"]
NoLast == [op |-> "none"]

HeapIdle == lists = << <<>> >> /\ fields = <<>> /\ hist = <<>> /\ last = NoLast
CallIdle == call = NoCall /\ ret = Pending
MainIdle == argv = <<>> /\ pc = 0 /\ ran = <<>> /\ exc = NoRaise

-----------------------------------------------------------------------------
(* Direct calls of a singularity's methods. *)

InitPoint ==
    /\ HeapIdle
    /\ MainIdle
    /\ call \in {[point |-> p, method |-> m, x |-> a[1], y |-> a[2]] :
                    p \in AllPoints, m \in {"compute_flow", "compute_psi"}, a \in CallArgs}
    /\ ret = Pending

Invoke ==
    /\ call # NoCall
    /\ ret = Pending
    /\ ret' = IF call.method = "compute_flow"
              THEN compute_flow(call.point, call.x, call.y)
              ELSE compute_psi(call.point, call.x, call.y)
    /\ UNCHANGED <<lists, fields, hist, last, call, argv, pc, ran, exc>>

NextPoint == Invoke

SpecPoint == InitPoint /\ [][NextPoint]_vars

-----------------------------------------------------------------------------
(* Properties of the direct calls. *)

Called(cls, method) ==
    ret # Pending /\ call # NoCall /\ call.point.cls = cls /\ call.method = method

TwoPi == FMul(FInt(2), pi.f)
Sq(a) == FMul(a, a)

(* The sample points of the call: for each, its offset (dx, dy) from the   *)
(* singularity and its place in the arguments ("scalar" or an index).      *)
Samples ==
    IF call.x.t = "float"
    THEN {[at |-> <<>>, dx |-> FSub(call.x.f, call.point.d.x.f),
                        dy |-> FSub(call.y.f, call.point.d.y.f)]}
    ELSE {[at |-> i, dx |-> FSub(call.x.data[i], call.point.d.x.f),
                     dy |-> FSub(call.y.data[i], call.point.d.y.f)] : i \in DOMAIN call.x.data}

OnSingularity(sm) == sm.dx = FInt(0) /\ sm.dy = FInt(0)

(* The value at a sample of a float or array result *)
At(o, sm) == IF o.t = "float" THEN o.f ELSE o.data[sm.at]

ShapeOf(o) == IF o.t = "float" THEN <<>> ELSE o.shape

Translated(point, a, b) ==
    [point EXCEPT !.d.x = PyAdd(@, PyInt(a)), !.d.y = PyAdd(@, PyInt(b))]

(* C1: for a doublet anywhere and a query point off it, compute_flow's u   *)
(* is -strength/(2 pi) (dx^2 - dy^2)/(dx^2 + dy^2)^2, a function of the    *)
(* offsets alone: translating doublet and query point together leaves it   *)
(* unchanged.                                                              *)
C1_DoubletURelative ==
    (Called("PointDoublet", "compute_flow") /\ call.x.t = "float"
        /\ \A sm \in Samples : ~OnSingularity(sm))
    => /\ ~IsRaise(ret)
       /\ \A sm \in Samples :
            ret.items[1].f =
                FDiv(FMul(FDiv(FNeg(call.point.d.strength.f), TwoPi),
                          FSub(Sq(sm.dx), Sq(sm.dy))),
                     Sq(FAdd(Sq(sm.dx), Sq(sm.dy))))
       /\ \A a \in Coords, b \in Coords :
            Subscript(compute_flow(Translated(call.point, a, b),
                                   PyAdd(call.x, PyInt(a)), PyAdd(call.y, PyInt(b))), 0)
                = ret.items[1]

(* C2: for a source and a query point off it, compute_psi completes and    *)
(* returns m/(2 pi) atan2(dy, dx).                                         *)
C2_SourcePsiCompletes ==
    (Called("PointSource", "compute_psi") /\ call.x.t = "float"
        /\ \A sm \in Samples : ~OnSingularity(sm))
    => /\ ~IsRaise(ret)
       /\ \A sm \in Samples :
            ret.f = FMul(FDiv(call.point.d.strength.f, TwoPi), FArctan2(sm.dy, sm.dx))

(* C3: every singularity's compute_flow and compute_psi take a single      *)
(* point or arrays of any shape and return, without raising, outputs of    *)
(* the shape of the input; so a vortex's compute_psi on grid arrays of     *)
(* more than one cell returns an array of the grid's shape.                *)
C3_ShapePreserved ==
    (ret # Pending /\ call # NoCall /\ \A sm \in Samples : ~OnSingularity(sm))
    => /\ ~IsRaise(ret)
       /\ IF call.method = "compute_flow"
          THEN ShapeOf(ret.items[1]) = ShapeOf(call.x) /\ ShapeOf(ret.items[2]) = ShapeOf(call.x)
          ELSE ShapeOf(ret) = ShapeOf(call.x)

(* C4: sampling a singularity's own location is no exception path:         *)
(* compute_flow of a single point or of arrays holding that location does  *)
(* not raise, is non-finite there, and at every other sample equals the    *)
(* value of sampling that point alone.                                     *)
C4_SingularPointNotAnError ==
    (ret # Pending /\ call # NoCall /\ call.method = "compute_flow"
        /\ \E sm \in Samples : OnSingularity(sm))
    => /\ ~IsRaise(ret)
       /\ \A sm \in Samples, c \in {1, 2} :
            IF OnSingularity(sm)
            THEN ~IsFinite(At(ret.items[c], sm))
            ELSE At(ret.items[c], sm) =
                    compute_flow(call.point, PyFloat(At(call.x, sm)),
                                 PyFloat(At(call.y, sm))).items[c].f

(* dx*v - dy*u and u*dx + v*dy at a sample of a compute_flow result *)
Circulation(sm) == FSub(FMul(sm.dx, At(ret.items[2], sm)), FMul(sm.dy, At(ret.items[1], sm)))
Radial(sm) == FAdd(FMul(At(ret.items[1], sm), sm.dx), FMul(At(ret.items[2], sm), sm.dy))

(* C8 as stated: a lone vortex's velocity off the vortex is tangential     *)
(* and, for positive strength, counter-clockwise (dx*v - dy*u > 0);        *)
(* negative strength reverses it.                                          *)
C8_VortexCounterClockwise ==
    Called("PointVortex", "compute_flow")
    => \A sm \in Samples : ~OnSingularity(sm) =>
          /\ ~IsRaise(ret)
          /\ Radial(sm) = FInt(0)
          /\ FSign(Circulation(sm)) = FSign(call.point.d.strength.f)

(* C8 amended: a lone vortex's velocity off the vortex is tangential       *)
(* and, for positive strength, clockwise (dx*v - dy*u < 0); negative       *)
(* strength reverses it.                                                   *)
C8_VortexClockwise ==
    Called("PointVortex", "compute_flow")
    => \A sm \in Samples : ~OnSingularity(sm) =>
          /\ ~IsRaise(ret)
          /\ Radial(sm) = FInt(0)
          /\ FSign(Circulation(sm)) = -FSign(call.point.d.strength.f)

C8_Witness ==
    /\ Called("PointVortex", "compute_flow")
    /\ FSign(call.point.d.strength.f) = 1
    /\ call.x.t = "ndarray"
    /\ ~IsRaise(ret)
    /\ \E sm \in Samples : ~OnSingularity(sm) /\ FSign(Circulation(sm)) = -1
    /\ \E sm \in Samples : OnSingularity(sm)

-----------------------------------------------------------------------------
(* FlowField2D instances on the heap. *)

AttrNames == {"points", "uinf", "alpha", "xlim", "ylim", "nx", "ny"}

SomePoints ==
    {PointSource_init(PyInt(CoordMax), PyInt(0), PyInt(-1), "r"),
     PointVortex_init(PyInt(0), PyInt(CoordMax), PyInt(2), "c")}

(* FlowField2D with keyword arguments kw: a points argument is a list literal, a new object *)
New(kw) ==
    /\ Len(fields) < MaxFields
    /\ IF "points" \in DOMAIN kw
       THEN /\ lists' = Append(lists, kw.points)
            /\ fields' = Append(fields, Construct(kw, Len(lists) + 1))
       ELSE /\ UNCHANGED lists
            /\ fields' = Append(fields, Construct(kw, DefaultPoints))
    /\ hist' = Append(hist, [default |-> "points" \notin DOMAIN kw, appended |-> FALSE])
    /\ last' = NoLast
    /\ UNCHANGED <<call, ret, argv, pc, ran, exc>>

(* field.points.append(p), by the caller *)
AppendPoint(f, p) ==
    /\ f \in 1..Len(fields)
    /\ Len(lists[fields[f].points]) < MaxLen
    /\ lists' = [lists EXCEPT ![fields[f].points] = Append(@, p)]
    /\ hist' = [hist EXCEPT ![f].appended = TRUE]
    /\ last' = NoLast
    /\ UNCHANGED <<fields, call, ret, argv, pc, ran, exc>>

(* field.<name> = value, for an attribute other than points *)
SetAttr(f, name, value) ==
    /\ f \in 1..Len(fields)
    /\ fields[f][name] # value
    /\ fields' = [fields EXCEPT ![f][name] = value]
    /\ last' = NoLast
    /\ UNCHANGED <<lists, hist, call, ret, argv, pc, ran, exc>>

(* field.points = [...]: a new list object; the old one is freed unless    *)
(* it is the default argument's or another instance refers to it, and a    *)
(* freed slot of the heap is used again.                                   *)
SetPoints(f, literal) ==
    /\ f \in 1..Len(fields)
    /\ LET old == fields[f].points
           kept == old = DefaultPoints
                   \/ \E g \in 1..Len(fields) : g # f /\ fields[g].points = old
       IN  IF kept
           THEN /\ lists' = Append(lists, literal)
                /\ fields' = [fields EXCEPT ![f].points = Len(lists) + 1]
           ELSE /\ lists[old] # literal
                /\ lists' = [lists EXCEPT ![old] = literal]
                /\ fields' = [fields EXCEPT ![f].points = old]
    /\ hist' = [hist EXCEPT ![f].appended = FALSE]
    /\ last' = NoLast
    /\ UNCHANGED <<call, ret, argv, pc, ran, exc>>

(* field.<name>, for a property *)
Get(f, name) ==
    /\ f \in 1..Len(fields)
    /\ LET r == property_get(fields[f], lists, name)
       IN  /\ last' = [op |-> "get", f |-> f, name |-> name, val |-> r.val,
                       pre |-> [fields |-> fields, lists |-> lists]]
           /\ fields' = [fields EXCEPT ![f] = r.self]
    /\ UNCHANGED <<lists, hist, call, ret, argv, pc, ran, exc>>

(* Several instances, made with and without a points argument. *)
KwHeap ==
    {[nx |-> n, ny |-> n] : n \in 1..MaxN}
    \cup {[points |-> <<>>, nx |-> n, ny |-> n] : n \in 1..MaxN}

Init == HeapIdle /\ CallIdle /\ MainIdle

Next ==
    \/ \E kw \in KwHeap : New(kw)
    \/ \E f \in 1..MaxFields, p \in SomePoints : AppendPoint(f, p)
    \/ \E f \in 1..MaxFields, name \in {"flow", "psi"} : Get(f, name)

Spec == Init /\ [][Next]_vars

(* One instance, its attributes assigned and its properties read. *)
Lims == {FullLim, <<PyInt(0), PyInt(CoordMax)>>}
Speeds == {PyInt(0), PyInt(1)}
Angles == {PyInt(0), PyInt(1)}

InitField ==
    /\ lists = << <<>>, <<>> >>
    /\ fields = <<Construct([points |-> <<>>, nx |-> 1, ny |-> 1], 2)>>
    /\ hist = <<[default |-> FALSE, appended |-> FALSE]>>
    /\ last = NoLast
    /\ CallIdle
    /\ MainIdle

NextField ==
    \/ \E value \in Speeds : SetAttr(1, "uinf", value)
    \/ \E value \in Angles : SetAttr(1, "alpha", value)
    \/ \E value \in Lims : SetAttr(1, "xlim", value)
    \/ \E value \in Lims : SetAttr(1, "ylim", value)
    \/ \E value \in 1..MaxN : SetAttr(1, "nx", value)
    \/ \E value \in 1..MaxN : SetAttr(1, "ny", value)
    \/ \E p \in SomePoints : SetPoints(1, <<p>>)
    \/ SetPoints(1, <<>>)
    \/ \E p \in SomePoints : AppendPoint(1, p)
    \/ \E name \in Properties : Get(1, name)

SpecField == InitField /\ [][NextField]_vars

(* One instance of any grid configuration, valid or not, its properties    *)
(* read.                                                                   *)
AnyLims == {<<PyInt(a), PyInt(b)>> : a \in Coords, b \in Coords}

InitGrid ==
    /\ lists = << <<>>, <<>> >>
    /\ \E xl \in AnyLims, yl \in AnyLims, n \in (-1)..MaxN, k \in (-1)..MaxN :
          fields = <<Construct([points |-> <<>>, xlim |-> xl, ylim |-> yl,
                                nx |-> n, ny |-> k], 2)>>
    /\ hist = <<[default |-> FALSE, appended |-> FALSE]>>
    /\ last = NoLast
    /\ CallIdle
    /\ MainIdle

NextGrid == \E name \in Properties : Get(1, name)

SpecGrid == InitGrid /\ [][NextGrid]_vars

-----------------------------------------------------------------------------
(* Properties of the aggregator. *)

GridProperties == {"grid", "x", "y"}

(* a >= b for floats *)
FGeq(a, b) == FSign(FSub(a, b)) \in {0, 1}

InvalidConfiguration(self) ==
    \/ FGeq(self.xlim[1].f, self.xlim[2].f)
    \/ FGeq(self.ylim[1].f, self.ylim[2].f)
    \/ self.nx <= 0
    \/ self.ny <= 0

(* C5: a configuration with xlim[0] >= xlim[1], ylim[0] >= ylim[1],        *)
(* nx <= 0 or ny <= 0 is constructed (construction refuses nothing), so    *)
(* its grid generation must fail: reading grid, x or y raises, and never   *)
(* returns a grid.                                                         *)
C5_InvalidConfigurationFails ==
    (last.op = "get" /\ last.name \in GridProperties
        /\ InvalidConfiguration(fields[last.f]))
    => IsRaise(last.val)

(* C6: an instance constructed without a points argument, through which    *)
(* the caller never appended, has an empty points list whatever was        *)
(* constructed or appended elsewhere, and its flow and psi are those of a  *)
(* field without singularities.                                            *)
C6_DefaultCollectionsIndependent ==
    \A f \in 1..Len(fields) :
        (hist[f].default /\ ~hist[f].appended)
        => /\ lists[fields[f].points] = <<>>
           /\ (last.op = "get" /\ last.f = f)
                => last.val = property_value(fields[f], << <<>> >>, last.name)

Reversed(s) == [i \in 1..Len(s) |-> s[Len(s) + 1 - i]]

(* C7: for a field of two singularities, u, v and psi are computed (the    *)
(* access returns arrays) and equal those of the field whose points list   *)
(* is in the other order.                                                  *)
C7_SuperpositionOrderIndependent ==
    (last.op = "get" /\ last.name \in {"u", "v", "psi"}
        /\ Len(lists[fields[last.f].points]) = 2)
    => /\ ~IsRaise(last.val)
       /\ last.val = property_value(fields[last.f],
                                    [lists EXCEPT ![fields[last.f].points] = Reversed(@)],
                                    last.name)

(* The instance FlowField2D makes of the current attribute values of self, *)
(* and the heap it lives in: its points argument is a copy of the list.    *)
FreshField(self) ==
    Construct([points |-> <<>>, uinf |-> self.uinf, alpha |-> self.alpha,
               xlim |-> self.xlim, ylim |-> self.ylim, nx |-> self.nx, ny |-> self.ny], 2)

FreshHeap(self, L) == << <<>>, L[self.points] >>

(* C9: reading a property leaves the instance's attributes and every list  *)
(* of singularities as they were, adds no attribute to the instance, and   *)
(* returns what the same property of a newly constructed instance with     *)
(* the current attribute values returns, whatever was assigned or read     *)
(* before.                                                                 *)
C9_NoCachedState ==
    last.op = "get"
    => /\ fields = last.pre.fields
       /\ lists = last.pre.lists
       /\ DOMAIN fields[last.f] = AttrNames
       /\ last.val = property_value(FreshField(fields[last.f]),
                                    FreshHeap(fields[last.f], lists), last.name)

C9_Witness ==
    /\ last.op = "get"
    /\ last.name = "flow"
    /\ ~IsRaise(last.val)
    /\ hist[last.f].appended
    /\ Len(lists[fields[last.f].points]) = 2
    /\ fields[last.f].nx = MaxN
    /\ fields[last.f].uinf = PyInt(1)
    /\ fields[last.f].xlim # FullLim

-----------------------------------------------------------------------------
(* plot_streamlines and the example command. *)

Axes == [t |-> "axes"]
None == [t |-> "None"]

(* The streamplot reads x, y, u and v; the dividing streamline, when       *)
(* asked for, reads x, y and psi.  An exception of a property propagates.  *)
plot_streamlines(self, L, show_divide) ==
    Let(FirstRaise(<<x(self), y(self), u(self, L), v(self, L)>>), LAMBDA e :
        IF e # NoRaise THEN e
        ELSE IF show_divide
            THEN Let(FirstRaise(<<x(self), y(self), psi(self, L)>>), LAMBDA d :
                     IF d # NoRaise THEN d ELSE Axes)
        ELSE Axes)

(* A scenario: the field of its keyword arguments, plotted; it returns     *)
(* None unless the plot raised.                                            *)
Scenario(kw, show_divide) ==
    Let(plot_streamlines(Construct(kw, 2), << <<>>, kw.points >>, show_divide), LAMBDA ax :
        IF IsRaise(ax) THEN ax ELSE None)

doublet ==
    Scenario([points |-> <<PointDoublet_init(PyInt(0), PyInt(0), PyInt(1), "g")>>,
              uinf |-> PyInt(1), nx |-> ExampleN, ny |-> ExampleN], TRUE)

rankine ==
    Scenario([points |-> <<PointSource_init(PyInt(0), PyInt(0), PyInt(1), "r"),
                           PointSource_init(PyInt(1), PyInt(0), PyInt(-1), "r")>>,
              xlim |-> <<PyInt(-1), PyInt(2)>>, nx |-> ExampleN, ny |-> ExampleN], FALSE)

simple_freestream ==
    Scenario([points |-> <<PointSource_init(PyInt(0), PyInt(0), PyInt(1), "r"),
                           PointSource_init(PyInt(1), PyInt(0), PyInt(-1), "r")>>,
              uinf |-> PyInt(1), xlim |-> <<PyInt(-1), PyInt(2)>>,
              nx |-> ExampleN, ny |-> ExampleN], TRUE)

source ==
    Scenario([points |-> <<PointSource_init(PyInt(0), PyInt(0), PyInt(1), "r")>>,
              nx |-> ExampleN, ny |-> ExampleN], FALSE)

vortex ==
    Scenario([points |-> <<PointVortex_init(PyInt(0), PyInt(0), PyInt(1), "c")>>,
              nx |-> ExampleN, ny |-> ExampleN], FALSE)

vortex_sheet ==
    Scenario([points |-> [i \in 1..SheetN |->
                            PointVortex_init(
                                PyFloat(linspace(PyInt(-1), PyInt(1), SheetN).data[<<i>>]),
                                PyInt(0), PyInt(1), "c")],
              xlim |-> <<PyInt(-1), PyInt(1)>>, nx |-> ExampleN, ny |-> ExampleN], FALSE)

ExampleNames == {"doublet", "rankine", "simple_freestream", "source", "vortex", "vortex_sheet"}
OtherNames == {"sink"}

(* The scenario the if/elif chain calls for a recognized name *)
Dispatch(arg) ==
    CASE arg = "doublet" -> doublet
      [] arg = "rankine" -> rankine
      [] arg = "simple_freestream" -> simple_freestream
      [] arg = "source" -> source
      [] arg = "vortex" -> vortex
      [] arg = "vortex_sheet" -> vortex_sheet

Running == exc = NoRaise /\ pc \in 1..Len(argv)

(* One iteration of the loop over args.examples with a recognized name:    *)
(* the scenario runs; an exception it raises ends the command.             *)
RunExample ==
    /\ Running
    /\ argv[pc] \in ExampleNames
    /\ \E out \in {Dispatch(argv[pc])} :
          /\ ran' = Append(ran, [name |-> argv[pc], out |-> out])
          /\ exc' = IF IsRaise(out) THEN out ELSE NoRaise
          /\ pc' = IF IsRaise(out) THEN pc ELSE pc + 1
    /\ UNCHANGED <<lists, fields, hist, last, call, ret, argv>>

(* One iteration with any other name: the else branch raises. *)
Unrecognized ==
    /\ Running
    /\ argv[pc] \notin ExampleNames
    /\ exc' = Raise("ValueError", <<"Unrecognized example case: %s", argv[pc]>>)
    /\ UNCHANGED <<lists, fields, hist, last, call, ret, argv, pc, ran>>

RECURSIVE SeqsUpTo(_, _)
SeqsUpTo(S, n) ==
    IF n = 0 THEN {<<>>}
    ELSE SeqsUpTo(S, n - 1) \cup {Append(q, e) : q \in SeqsUpTo(S, n - 1), e \in S}

InitMain ==
    /\ HeapIdle
    /\ CallIdle
    /\ argv \in SeqsUpTo(ExampleNames \cup OtherNames, MaxArgs)
    /\ pc = 1
    /\ ran = <<>>
    /\ exc = NoRaise

NextMain == RunExample \/ Unrecognized

SpecMain == InitMain /\ [][NextMain]_vars

Terminated == exc # NoRaise \/ pc > Len(argv)

(* C10: when some name of the list is not an example's, no scenario is     *)
(* ever executed, and the command ends with an error that names an         *)
(* unrecognized name of the list.                                          *)
C10_UnrecognizedNameRunsNothing ==
    (\E i \in 1..Len(argv) : argv[i] \notin ExampleNames)
    => /\ ran = <<>>
       /\ Terminated =>
            /\ exc # NoRaise
            /\ exc.exc = "ValueError"
            /\ exc.msg[2] \in {argv[i] : i \in 1..Len(argv)} \ ExampleNames

====
